---- MODULE Spec2Model ----
(***************************************************************************)
(* coilLauncher (src/src/main.cpp): the control loop of a two-coil sled    *)
(* launcher.  loop() is modelled statement group by statement group: pc    *)
(* names the group that runs next, and one action models each group.       *)
(* millis() is the variable now; it advances between two iterations of     *)
(* loop() (LoopEntry) and inside the two calls that block, checkSwitch()   *)
(* and delay().  The two hall-sensor lines are inputs that may change      *)
(* whenever time passes.                                                   *)
(***************************************************************************)
EXTENDS Integers, FiniteSets, Sequences, TLC

VARIABLES
  now,               \* millis()
  pc,                \* the statement group of loop() that runs next
  hall1Line,         \* level of pin HALL_SENSOR1 (0 = sled present)
  hall2Line,         \* level of pin HALL_SENSOR2 (0 = sled present)
  holdOffDelay,
  coil0TriggerTime,
  coil1TriggerTime,
  hall1TripTime,
  hall2TripTime,
  readyToLaunch,
  launched,
  coil0Active,
  coil1Active,
  hall1Tripped,
  hall2Tripped,
  trigger0,          \* level written to pin TRIGGER0
  trigger1,          \* level written to pin TRIGGER1
  ledPins,           \* <<LED_RED_PIN, LED_GREEN_PIN, LED_BLUE_PIN>>, active low
  hall1SledSpeed,    \* the local of lines 136-143; 0 outside its block
  hall2SledSpeed,    \* the local of lines 140-143; 0 outside its block
  ran,               \* the statement groups whose body ran in this iteration
  shots,             \* number of coil0 firings so far
  releasedSince,     \* checkSwitch() has returned 1 since the last coil0 firing
  iters,             \* number of iterations of loop() started so far
  analog,            \* the last reading of analogRead(HOLDOFF_DELAY_PIN)
  coil1Shots,        \* number of coil1 firings since the last coil0 firing
  swPrev,            \* checkSwitch(): prevState
  swState,           \* checkSwitch(): state
  swCounter,         \* checkSwitch(): counter
  swReturn,          \* checkSwitch(): the value returned, once it has returned
  swLast,            \* the level of the last read of the switch pin
  swRun,             \* number of latest polls in a row that read swLast
  swChanges          \* number of reads that differed from the read before

vars == <<now, pc, hall1Line, hall2Line, holdOffDelay, coil0TriggerTime,
          coil1TriggerTime, hall1TripTime, hall2TripTime, readyToLaunch,
          launched, coil0Active, coil1Active, hall1Tripped, hall2Tripped,
          trigger0, trigger1, ledPins, hall1SledSpeed, hall2SledSpeed,
          ran, shots, releasedSince, iters, analog, coil1Shots, swPrev,
          swState, swCounter, swReturn, swLast, swRun, swChanges>>

\* the globals of the program, the sensor lines and the history of loop()
loopVars == <<hall1Line, hall2Line, holdOffDelay, coil0TriggerTime,
              coil1TriggerTime, hall1TripTime, hall2TripTime, readyToLaunch,
              launched, coil0Active, coil1Active, hall1Tripped, hall2Tripped,
              trigger0, trigger1, ledPins, hall1SledSpeed, hall2SledSpeed,
              ran, shots, releasedSince, iters, analog, coil1Shots>>

\* the locals of checkSwitch() and the history of its reads
csVars == <<swPrev, swState, swCounter, swReturn, swLast, swRun, swChanges>>

----------------------------------------------------------------------------
(* Program constants *)

BLACK == 0
RED == 1
BLUE == 2
GREEN == 3

REARM_DELAY == 5000
FAIL_SAFE_LIMIT == 1000
pulseWidth == 30
debounceDelay == 20
SetupDelay == 1000
Hall1Distance == 45000
Hall2Distance == 100000
AnalogMax == 1023
HoldOffMax == 102

\* unsigned long arithmetic wraps around.  The target's modulus is 2^32, which
\* is more than the model checker's integers hold; the model wraps at 2^30.
\* Every clock value is at most MaxTime, so a difference that wraps is larger
\* than every limit and every dividend of the program under either modulus.
ULongModulus == 1073741824

----------------------------------------------------------------------------
(* Bounds of the model *)

\* the clock stops at MaxTime
MaxTime == 6300

\* the number of iterations of loop() that are followed
MaxIters == 5

\* the longest time between two iterations of loop() while a launch is in
\* progress or a coil is energized (the statements of loop() outside
\* checkSwitch() and delay() do not block); idle iterations, which change
\* nothing, may be passed over in one longer step
MaxPollGap == 1000

\* the times that may pass between two iterations of loop()
Deltas == {0, 30, 1000, 5000}

\* the times between two iterations in the timed launch scenarios
ScenarioDeltas == {50, 90, 100, 5000}

\* the times between two iterations when a launch that the fail-safe ended
\* is followed by another launch
RelaunchDeltas == {30, 1000, 4000}

\* the times between two iterations when loop() is run for ever: the clock
\* advances at every iteration
LiveDeltas == {600, 1000, 5000}

\* the readings of analogRead(HOLDOFF_DELAY_PIN) that are tried
AnalogReadings == {0, 101}

\* the extra time checkSwitch() polls for when the switch bounces
BounceExtra == {0}

\* the time between setup() and the first iteration when every reading of
\* the potentiometer is tried
HoldOffGaps == {0}

\* the number of times the switch pin changes level during one call of
\* checkSwitch() that is followed poll by poll
MaxBounces == 2

----------------------------------------------------------------------------
(* Helpers *)

\* unsigned long subtraction
Sub32(a, b) == (a - b) % ULongModulus

\* map() with the division done before the multiplication
mapDivFirst(x, in_min, in_max, out_min, out_max) ==
  (x - in_min) * ((out_max - out_min) \div (in_max - in_min)) + out_min

\* Arduino's map(x, in_min, in_max, out_min, out_max)
map(x, in_min, in_max, out_min, out_max) ==
  ((x - in_min) * (out_max - out_min)) \div (in_max - in_min) + out_min

\* the levels turnLED(color) writes to <<red, green, blue>>
turnLED(color) ==
  CASE color = RED   -> <<0, 1, 1>>
    [] color = GREEN -> <<1, 0, 1>>
    [] color = BLUE  -> <<1, 1, 0>>
    [] OTHER         -> <<1, 1, 1>>

\* checkSwitch() taken as a read that does not wait for the debounce period
CheckSwitchTimesNone == BounceExtra

\* the times a call of checkSwitch() may take: debounceDelay polls of 1 ms
\* after the last change of the pin
CheckSwitchTimes == {debounceDelay + e : e \in BounceExtra}

\* the quotients an unsigned long division by zero may leave: it is undefined
DivByZeroResults == {0, ULongModulus - 1}

\* the quotients num / den may yield
ULongDiv(num, den) ==
  IF den = 0 THEN DivByZeroResults ELSE {num \div den}

Levels == {0, 1}

----------------------------------------------------------------------------
\* lines 51-64 and setup() (lines 70-85): the globals, the pins and the clock
\* when loop() is entered for the first time
InitGlobals ==
  /\ now = SetupDelay
  /\ hall1Line \in Levels
  /\ hall2Line \in Levels
  /\ holdOffDelay = 0
  /\ coil0TriggerTime = 0
  /\ coil1TriggerTime = 0
  /\ hall1TripTime = 0
  /\ hall2TripTime = 0
  /\ readyToLaunch = TRUE
  /\ launched = FALSE
  /\ coil0Active = FALSE
  /\ coil1Active = FALSE
  /\ hall1Tripped = FALSE
  /\ hall2Tripped = FALSE
  /\ trigger0 = 0
  /\ trigger1 = 0
  /\ ledPins = <<1, 0, 1>>
  /\ hall1SledSpeed = 0
  /\ hall2SledSpeed = 0
  /\ ran = {}
  /\ shots = 0
  /\ releasedSince = FALSE
  /\ iters = 0
  /\ analog = 0
  /\ coil1Shots = 0

\* no call of checkSwitch() is followed poll by poll
CsIdle ==
  /\ swPrev = 0
  /\ swState = 0
  /\ swCounter = 0
  /\ swReturn = FALSE
  /\ swLast = 0
  /\ swRun = 0
  /\ swChanges = 0

\* the first entry of loop()
Init ==
  /\ InitGlobals
  /\ pc = "entry"
  /\ CsIdle

\* time d passes (at most up to MaxTime) and the sensor lines take new levels
Pass(d) ==
  /\ now + d <= MaxTime
  /\ now' = now + d
  /\ hall1Line' \in Levels
  /\ hall2Line' \in Levels

NoPass == UNCHANGED <<now, hall1Line, hall2Line>>

\* line 90, with the time that passed since the previous iteration: a time
\* of D, and a reading of A
LoopEntryFrom(D, A) ==
  /\ pc = "entry"
  /\ iters < MaxIters
  /\ iters' = iters + 1
  /\ \E d \in D :
       /\ (launched \/ coil0Active \/ coil1Active) => d <= MaxPollGap
       /\ Pass(d)
  /\ \E a \in A :
       /\ analog' = a
       /\ holdOffDelay' = map(a, 0, AnalogMax, 0, HoldOffMax)
  /\ hall1SledSpeed' = 0
  /\ hall2SledSpeed' = 0
  /\ ran' = {}
  /\ pc' = "failsafe"
  /\ UNCHANGED <<coil0TriggerTime, coil1TriggerTime, hall1TripTime,
                 hall2TripTime, readyToLaunch, launched, coil0Active,
                 coil1Active, hall1Tripped, hall2Tripped, trigger0, trigger1,
                 ledPins, shots, releasedSince, coil1Shots, csVars>>

LoopEntryWith(D) == LoopEntryFrom(D, AnalogReadings)

LoopEntry == LoopEntryWith(Deltas)

ScenarioLoopEntry == LoopEntryWith(ScenarioDeltas)

\* line 94 with the cool-down in the place of the fail-safe limit
FailSafeCondRearm == launched /\ Sub32(now, coil0TriggerTime) > REARM_DELAY

\* line 94
FailSafeCond == launched /\ Sub32(now, coil0TriggerTime) > FAIL_SAFE_LIMIT

\* lines 95-100, with launched = 0 left out
FailSafeBodyKeepsLaunched ==
  /\ trigger0' = 0
  /\ trigger1' = 0
  /\ launched' = launched
  /\ coil0Active' = FALSE
  /\ coil1Active' = FALSE
  /\ UNCHANGED <<readyToLaunch, hall1Tripped, hall2Tripped, hall1TripTime,
                 hall2TripTime, coil0TriggerTime, coil1TriggerTime>>

\* lines 95-100 without digitalWrite(TRIGGER1,0)
FailSafeBodyKeepsOutput ==
  /\ trigger0' = 0
  /\ trigger1' = trigger1
  /\ launched' = FALSE
  /\ coil0Active' = FALSE
  /\ coil1Active' = FALSE
  /\ UNCHANGED <<readyToLaunch, hall1Tripped, hall2Tripped, hall1TripTime,
                 hall2TripTime, coil0TriggerTime, coil1TriggerTime>>

\* lines 95-100 with the two sensor-trip flags cleared as well
FailSafeBodyClearsFlags ==
  /\ trigger0' = 0
  /\ trigger1' = 0
  /\ launched' = FALSE
  /\ coil0Active' = FALSE
  /\ coil1Active' = FALSE
  /\ hall1Tripped' = FALSE
  /\ hall2Tripped' = FALSE
  /\ UNCHANGED <<readyToLaunch, hall1TripTime, hall2TripTime,
                 coil0TriggerTime, coil1TriggerTime>>

\* lines 95-100: the assignments, and the globals they leave alone
FailSafeBody ==
  /\ trigger0' = 0
  /\ trigger1' = 0
  /\ launched' = FALSE
  /\ coil0Active' = FALSE
  /\ coil1Active' = FALSE
  /\ UNCHANGED <<readyToLaunch, hall1Tripped, hall2Tripped, hall1TripTime,
                 hall2TripTime, coil0TriggerTime, coil1TriggerTime>>

\* lines 94-101
FailSafe ==
  /\ pc = "failsafe"
  /\ IF FailSafeCond
       THEN FailSafeBody /\ ran' = ran \cup {"failsafe"}
       ELSE UNCHANGED <<trigger0, trigger1, launched, coil0Active,
                        coil1Active, readyToLaunch, hall1Tripped,
                        hall2Tripped, hall1TripTime, hall2TripTime,
                        coil0TriggerTime, coil1TriggerTime, ran>>
  /\ pc' = "led"
  /\ NoPass
  /\ UNCHANGED <<holdOffDelay, ledPins, hall1SledSpeed, hall2SledSpeed,
                 shots, releasedSince, iters, analog, coil1Shots, csVars>>

\* lines 104-108 with the two branches in the other order
LedColourBlueFirst ==
  IF ~readyToLaunch
    THEN turnLED(BLUE)
    ELSE IF coil0Active \/ coil1Active THEN turnLED(RED) ELSE ledPins

\* lines 104-108: the levels of the LED pins after the indicator update
LedColour ==
  IF coil0Active \/ coil1Active
    THEN turnLED(RED)
    ELSE IF ~coil0Active /\ ~coil1Active /\ ~readyToLaunch
           THEN turnLED(BLUE)
           ELSE ledPins

Led ==
  /\ pc = "led"
  /\ ledPins' = LedColour
  /\ pc' = "hall1"
  /\ NoPass
  /\ UNCHANGED <<holdOffDelay, coil0TriggerTime, coil1TriggerTime,
                 hall1TripTime, hall2TripTime, readyToLaunch, launched,
                 coil0Active, coil1Active, hall1Tripped, hall2Tripped,
                 trigger0, trigger1, hall1SledSpeed, hall2SledSpeed, ran,
                 shots, releasedSince, iters, analog,
                 coil1Shots, csVars>>

\* line 111 without the test of hall1Tripped
Hall1CondRelatch == launched /\ hall1Line = 0

\* line 111
Hall1Cond == launched /\ ~hall1Tripped /\ hall1Line = 0

\* lines 111-119
Hall1 ==
  /\ pc = "hall1"
  /\ IF Hall1Cond
       THEN /\ hall1Tripped' = TRUE
            /\ hall1TripTime' = now
            /\ ran' = ran \cup {"hall1"}
       ELSE UNCHANGED <<hall1Tripped, hall1TripTime, ran>>
  /\ pc' = "hall2"
  /\ NoPass
  /\ UNCHANGED <<holdOffDelay, coil0TriggerTime, coil1TriggerTime,
                 hall2TripTime, readyToLaunch, launched, coil0Active,
                 coil1Active, hall2Tripped, trigger0, trigger1, ledPins,
                 hall1SledSpeed, hall2SledSpeed, shots, releasedSince,
                 iters, analog, coil1Shots, csVars>>

\* line 121
Hall2Cond == launched /\ ~hall2Tripped /\ hall2Line = 0

\* lines 121-129
Hall2 ==
  /\ pc = "hall2"
  /\ IF Hall2Cond
       THEN /\ hall2Tripped' = TRUE
            /\ hall2TripTime' = now
            /\ ran' = ran \cup {"hall2"}
       ELSE UNCHANGED <<hall2Tripped, hall2TripTime, ran>>
  /\ pc' = "speed"
  /\ NoPass
  /\ UNCHANGED <<holdOffDelay, coil0TriggerTime, coil1TriggerTime,
                 hall1TripTime, readyToLaunch, launched, coil0Active,
                 coil1Active, hall1Tripped, trigger0, trigger1, ledPins,
                 hall1SledSpeed, hall2SledSpeed, shots, releasedSince,
                 iters, analog, coil1Shots, csVars>>

\* line 136
Hall1Speeds == ULongDiv(Hall1Distance, Sub32(hall1TripTime, coil0TriggerTime))

\* line 140 with the time taken from the firing of coil1
Hall2SpeedsFromCoil1 ==
  ULongDiv(Hall2Distance, Sub32(hall2TripTime, coil1TriggerTime))

\* line 140
Hall2Speeds == ULongDiv(Hall2Distance, Sub32(hall2TripTime, hall1TripTime))

\* line 133 with a test that neither divisor is zero
SpeedCondGuarded ==
  /\ hall1Tripped
  /\ hall2Tripped
  /\ hall1TripTime # coil0TriggerTime
  /\ hall2TripTime # hall1TripTime

\* line 133
SpeedCond == hall1Tripped /\ hall2Tripped

\* lines 133-149
Speed ==
  /\ pc = "speed"
  /\ IF SpeedCond
       THEN /\ hall1SledSpeed' \in Hall1Speeds
            /\ hall2SledSpeed' \in Hall2Speeds
            /\ hall1Tripped' = FALSE
            /\ hall2Tripped' = FALSE
            /\ launched' = FALSE
            /\ ran' = ran \cup {"speed"}
       ELSE UNCHANGED <<hall1SledSpeed, hall2SledSpeed, hall1Tripped,
                        hall2Tripped, launched, ran>>
  /\ pc' = "rearm"
  /\ NoPass
  /\ UNCHANGED <<holdOffDelay, coil0TriggerTime, coil1TriggerTime,
                 hall1TripTime, hall2TripTime, readyToLaunch, coil0Active,
                 coil1Active, trigger0, trigger1, ledPins, shots,
                 releasedSince, iters, analog,
                 coil1Shots, csVars>>

\* line 152 with the fail-safe limit in the place of the cool-down
RearmCondShort == Sub32(now, coil0TriggerTime) > FAIL_SAFE_LIMIT

\* line 152 without the test of the cool-down
RearmCondNoCooldown == TRUE

\* line 152, left operand of &&: checkSwitch() is called only when it holds
RearmCond == Sub32(now, coil0TriggerTime) > REARM_DELAY

\* lines 154-156 without the turnLED(GREEN)
RearmLedStays == ledPins

\* lines 154-156: the levels of the LED pins after the rearm
RearmLed ==
  IF ~coil0Active /\ ~coil1Active THEN turnLED(GREEN) ELSE ledPins

\* lines 152-157
Rearm ==
  /\ pc = "rearm"
  /\ IF RearmCond
       THEN \E t \in CheckSwitchTimes, sw \in BOOLEAN :
              /\ Pass(t)
              /\ IF sw
                   THEN /\ readyToLaunch' = TRUE
                        /\ ledPins' = RearmLed
                        /\ releasedSince' = TRUE
                        /\ ran' = ran \cup {"rearm"}
                   ELSE UNCHANGED <<readyToLaunch, ledPins, releasedSince,
                                    ran>>
       ELSE /\ NoPass
            /\ UNCHANGED <<readyToLaunch, ledPins, releasedSince, ran>>
  /\ pc' = "fire0"
  /\ UNCHANGED <<holdOffDelay, coil0TriggerTime, coil1TriggerTime,
                 hall1TripTime, hall2TripTime, launched, coil0Active,
                 coil1Active, hall1Tripped, hall2Tripped, trigger0, trigger1,
                 hall1SledSpeed, hall2SledSpeed, shots, iters, analog,
                 coil1Shots, csVars>>

\* line 158, the conjuncts before checkSwitch(): they decide whether it is
\* called
Fire0Ready ==
  /\ readyToLaunch
  /\ ~coil0Active
  /\ ~coil1Active
  /\ hall1Line = 1
  /\ hall2Line = 1

\* lines 158-163: the test, and the flags of a firing
Fire0 ==
  /\ pc = "fire0"
  /\ IF Fire0Ready
       THEN \E t \in CheckSwitchTimes, sw \in BOOLEAN :
              /\ Pass(t)
              /\ IF ~sw
                   THEN /\ readyToLaunch' = FALSE
                        /\ launched' = TRUE
                        /\ coil0Active' = TRUE
                        /\ ran' = ran \cup {"fire0"}
                        /\ pc' = "fire0out"
                        /\ UNCHANGED releasedSince
                   ELSE /\ releasedSince' = TRUE
                        /\ pc' = "fire1"
                        /\ UNCHANGED <<readyToLaunch, launched, coil0Active,
                                       ran>>
       ELSE /\ NoPass
            /\ pc' = "fire1"
            /\ UNCHANGED <<readyToLaunch, launched, coil0Active,
                           releasedSince, ran>>
  /\ UNCHANGED <<holdOffDelay, coil0TriggerTime, coil1TriggerTime,
                 hall1TripTime, hall2TripTime, coil1Active, hall1Tripped,
                 hall2Tripped, trigger0, trigger1, ledPins, hall1SledSpeed,
                 hall2SledSpeed, shots, iters, analog, coil1Shots, csVars>>

\* lines 164-168: the output of a firing and its time
Fire0Out ==
  /\ pc = "fire0out"
  /\ trigger0' = 1
  /\ coil0TriggerTime' = now
  /\ shots' = shots + 1
  /\ coil1Shots' = 0
  /\ releasedSince' = FALSE
  /\ pc' = "fire1"
  /\ NoPass
  /\ UNCHANGED <<holdOffDelay, coil1TriggerTime, hall1TripTime, hall2TripTime,
                 readyToLaunch, launched, coil0Active, coil1Active,
                 hall1Tripped, hall2Tripped, trigger1, ledPins,
                 hall1SledSpeed, hall2SledSpeed, ran, iters, analog, csVars>>

\* line 172
Fire1Cond == launched /\ ~coil1Active /\ hall1Line = 0

\* lines 175-177 without coil0Active = 0
Fire1BodyKeepsFlag ==
  /\ trigger0' = 0
  /\ coil0Active' = coil0Active
  /\ coil1Active' = TRUE

\* lines 175-177 without digitalWrite(TRIGGER0,0)
Fire1BodyKeepsOutput ==
  /\ trigger0' = trigger0
  /\ coil0Active' = FALSE
  /\ coil1Active' = TRUE

\* lines 175-177
Fire1Body ==
  /\ trigger0' = 0
  /\ coil0Active' = FALSE
  /\ coil1Active' = TRUE

\* lines 172-177
Fire1 ==
  /\ pc = "fire1"
  /\ IF Fire1Cond
       THEN /\ Fire1Body
            /\ ran' = ran \cup {"fire1"}
            /\ pc' = "holdoff"
       ELSE /\ UNCHANGED <<trigger0, coil0Active, coil1Active, ran>>
            /\ pc' = "expire0"
  /\ NoPass
  /\ UNCHANGED <<holdOffDelay, coil0TriggerTime, coil1TriggerTime,
                 hall1TripTime, hall2TripTime, readyToLaunch, launched,
                 hall1Tripped, hall2Tripped, trigger1, ledPins,
                 hall1SledSpeed, hall2SledSpeed, shots, releasedSince,
                 iters, analog, coil1Shots, csVars>>

\* line 181 with delayMicroseconds() in the place of delay()
HoldOffTimeMicros == holdOffDelay \div 1000

\* line 181: the time delay(holdOffDelay) blocks for
HoldOffTime == holdOffDelay

\* lines 178-181
HoldOff ==
  /\ pc = "holdoff"
  /\ Pass(HoldOffTime)
  /\ pc' = "trigger1"
  /\ UNCHANGED <<holdOffDelay, coil0TriggerTime, coil1TriggerTime,
                 hall1TripTime, hall2TripTime, readyToLaunch, launched,
                 coil0Active, coil1Active, hall1Tripped, hall2Tripped,
                 trigger0, trigger1, ledPins, hall1SledSpeed, hall2SledSpeed,
                 ran, shots, releasedSince, iters, analog,
                 coil1Shots, csVars>>

\* lines 182-183
Trigger1 ==
  /\ pc = "trigger1"
  /\ trigger1' = 1
  /\ coil1TriggerTime' = now
  /\ coil1Shots' = coil1Shots + 1
  /\ pc' = "expire0"
  /\ NoPass
  /\ UNCHANGED <<holdOffDelay, coil0TriggerTime, hall1TripTime, hall2TripTime,
                 readyToLaunch, launched, coil0Active, coil1Active,
                 hall1Tripped, hall2Tripped, trigger0, ledPins,
                 hall1SledSpeed, hall2SledSpeed, ran, shots, releasedSince,
                 iters, analog, csVars>>

\* line 192 with >= in the place of >
Expire0CondEarly == coil0Active /\ Sub32(now, coil0TriggerTime) >= pulseWidth

\* line 192
Expire0Cond == coil0Active /\ Sub32(now, coil0TriggerTime) > pulseWidth

\* lines 192-198
Expire0 ==
  /\ pc = "expire0"
  /\ IF Expire0Cond
       THEN /\ coil0Active' = FALSE
            /\ trigger0' = 0
            /\ ran' = ran \cup {"expire0"}
       ELSE UNCHANGED <<coil0Active, trigger0, ran>>
  /\ pc' = "expire1"
  /\ NoPass
  /\ UNCHANGED <<holdOffDelay, coil0TriggerTime, coil1TriggerTime,
                 hall1TripTime, hall2TripTime, readyToLaunch, launched,
                 coil1Active, hall1Tripped, hall2Tripped, trigger1, ledPins,
                 hall1SledSpeed, hall2SledSpeed, shots, releasedSince,
                 iters, analog, coil1Shots, csVars>>

\* line 199
Expire1Cond == coil1Active /\ Sub32(now, coil1TriggerTime) > pulseWidth

\* lines 199-205
Expire1 ==
  /\ pc = "expire1"
  /\ IF Expire1Cond
       THEN /\ coil1Active' = FALSE
            /\ trigger1' = 0
            /\ ran' = ran \cup {"expire1"}
       ELSE UNCHANGED <<coil1Active, trigger1, ran>>
  /\ pc' = "entry"
  /\ NoPass
  /\ UNCHANGED <<holdOffDelay, coil0TriggerTime, coil1TriggerTime,
                 hall1TripTime, hall2TripTime, readyToLaunch, launched,
                 coil0Active, hall1Tripped, hall2Tripped, trigger0, ledPins,
                 hall1SledSpeed, hall2SledSpeed, shots, releasedSince,
                 iters, analog, coil1Shots, csVars>>

\* one iteration of loop() after its entry, lines 93-205
LoopBody ==
  \/ FailSafe
  \/ Led
  \/ Hall1
  \/ Hall2
  \/ Speed
  \/ Rearm
  \/ Fire0
  \/ Fire0Out
  \/ Fire1
  \/ HoldOff
  \/ Trigger1
  \/ Expire0
  \/ Expire1

Next == LoopEntry \/ LoopBody

Spec == Init /\ [][Next]_vars

\* the same program with the iterations spaced by ScenarioDeltas
ScenarioNext == ScenarioLoopEntry \/ LoopBody

ScenarioSpec == Init /\ [][ScenarioNext]_vars

\* the same program with the iterations spaced by RelaunchDeltas
RelaunchLoopEntry == LoopEntryWith(RelaunchDeltas)

RelaunchNext == RelaunchLoopEntry \/ LoopBody

RelaunchSpec == Init /\ [][RelaunchNext]_vars

\* the same program run for as long as the bounds allow: loop() is called
\* again whenever it has returned, and the clock advances between two calls
LiveLoopEntry == LoopEntryWith(LiveDeltas)

LiveNext == LiveLoopEntry \/ LoopBody

LiveSpec == Init /\ [][LiveNext]_vars /\ WF_vars(LiveNext)

\* the first iteration of loop(), with every reading of the potentiometer
HoldOffLoopEntry ==
  /\ iters = 0
  /\ LoopEntryFrom(HoldOffGaps, 0..AnalogMax)

HoldOffNext == HoldOffLoopEntry \/ LoopBody

HoldOffSpec == Init /\ [][HoldOffNext]_vars

----------------------------------------------------------------------------
(* checkSwitch() poll by poll: the call of line 158 in the first iteration *)

\* lines 231-234: checkSwitch() is entered; state and prevState are not
\* initialized
DebounceInit ==
  /\ InitGlobals
  /\ pc = "cs_first"
  /\ swPrev \in Levels
  /\ swState \in Levels
  /\ swCounter = 0
  /\ swReturn = FALSE
  /\ swLast = 0
  /\ swRun = 0
  /\ swChanges = 0

\* the levels digitalRead(pin) may return in a poll: the pin changes level at
\* most MaxBounces times during the call
SwitchReads == {l \in Levels : l = swLast \/ swChanges < MaxBounces}

\* line 235, and the initialization of line 236
CsFirst ==
  /\ pc = "cs_first"
  /\ \E l \in Levels :
       /\ swPrev' = l
       /\ swLast' = l
  /\ swCounter' = 0
  /\ swRun' = 0
  /\ pc' = "cs_test"
  /\ UNCHANGED <<now, swState, swReturn, swChanges, loopVars>>

\* line 236, the test counter < debounceDelay
CsTest ==
  /\ pc = "cs_test"
  /\ pc' = IF swCounter < debounceDelay THEN "cs_poll" ELSE "cs_return"
  /\ UNCHANGED <<now, csVars, loopVars>>

\* lines 239-242 without counter=0
CsCounterNoReset(l) == swCounter

\* lines 239-242: counter after a poll that read l
CsCounter(l) == IF l # swPrev THEN 0 ELSE swCounter

\* lines 237-242: one poll
CsPoll ==
  /\ pc = "cs_poll"
  /\ now + 1 <= MaxTime
  /\ now' = now + 1
  /\ \E l \in SwitchReads :
       /\ swState' = l
       /\ swCounter' = CsCounter(l)
       /\ swPrev' = IF l # swPrev THEN l ELSE swPrev
       /\ swRun' = IF l = swLast THEN swRun + 1 ELSE 1
       /\ swChanges' = IF l = swLast THEN swChanges ELSE swChanges + 1
       /\ swLast' = l
  /\ pc' = "cs_incr"
  /\ UNCHANGED <<swReturn, loopVars>>

\* line 236, counter++
CsIncr ==
  /\ pc = "cs_incr"
  /\ swCounter' = swCounter + 1
  /\ pc' = "cs_test"
  /\ UNCHANGED <<now, swPrev, swState, swReturn, swLast, swRun, swChanges,
                 loopVars>>

\* lines 245-249
CsReturn ==
  /\ pc = "cs_return"
  /\ swReturn' = (swState = 1)
  /\ pc' = "cs_done"
  /\ UNCHANGED <<now, swPrev, swState, swCounter, swLast, swRun, swChanges,
                 loopVars>>

DebounceNext == CsFirst \/ CsTest \/ CsPoll \/ CsIncr \/ CsReturn

DebounceSpec == DebounceInit /\ [][DebounceNext]_vars

----------------------------------------------------------------------------
(* Claims *)

LedIs(color) == ledPins = turnLED(color)

CoilsOff == trigger0 = 0 /\ trigger1 = 0 /\ ~coil0Active /\ ~coil1Active

\* C1: in every reachable state of the control loop, at every statement of
\* every iteration, coil0Active and coil1Active are not both true.
C1_MutualExclusion == ~(coil0Active /\ coil1Active)

\* coil1 has just been switched to active by the firing step of a launch
\* whose coil0 pulse was still running at the start of the step
C1_Witness ==
  /\ pc = "holdoff"
  /\ "fire1" \in ran
  /\ coil1Active
  /\ ~coil0Active
  /\ Sub32(now, coil0TriggerTime) <= pulseWidth

\* C2: the outputs TRIGGER0 and TRIGGER1 are never both high, at any statement
\* of any iteration; during the hold-off delay of the coil1 firing step both
\* are low (TRIGGER0 is written low before it, TRIGGER1 high after it).
C2_OutputsExclusive ==
  /\ ~(trigger0 = 1 /\ trigger1 = 1)
  /\ pc \in {"holdoff", "trigger1"} => (trigger0 = 0 /\ trigger1 = 0)

\* the hold-off delay is over and TRIGGER1 has been written high while the
\* coil0 pulse of the launch would still be running
C2_Witness ==
  /\ pc = "expire0"
  /\ "fire1" \in ran
  /\ trigger1 = 1
  /\ trigger0 = 0
  /\ holdOffDelay > 0
  /\ Sub32(now, coil0TriggerTime) <= pulseWidth

\* C3: after the fail-safe check of an iteration a launch is in progress only
\* if millis() - coil0TriggerTime was at most FAIL_SAFE_LIMIT at the check;
\* when the check found more, the outputs are low, coil0Active, coil1Active
\* and launched are false from the check to the end of that iteration.
C3_WatchdogBound ==
  /\ (pc \in {"led", "hall1", "hall2", "speed", "rearm"} /\ launched)
       => Sub32(now, coil0TriggerTime) <= FAIL_SAFE_LIMIT
  /\ "failsafe" \in ran => (CoilsOff /\ ~launched)

\* an iteration in which the fail-safe shut a coil1 pulse down has ended
C3_Witness ==
  /\ pc = "entry"
  /\ "failsafe" \in ran
  /\ Sub32(now, coil1TriggerTime) <= pulseWidth
  /\ coil1TriggerTime > coil0TriggerTime

\* C4: a coil0 firing that follows an earlier one happens more than
\* REARM_DELAY after the earlier coil0TriggerTime, and checkSwitch() has
\* returned released since the earlier one.
C4_Cooldown ==
  [][(shots' = shots + 1 /\ shots >= 1)
       => /\ coil0TriggerTime' - coil0TriggerTime > REARM_DELAY
          /\ releasedSince]_vars

\* the second coil0 firing has happened
C4_Witness ==
  /\ shots = 2
  /\ "fire0" \in ran
  /\ coil0Active

\* C5: readyToLaunch changes from false to true only in the rearm step, with
\* millis() - coil0TriggerTime > REARM_DELAY and the switch read released; it
\* is never true while coil0Active or coil1Active is.
C5_RearmGate ==
  /\ [][(~readyToLaunch /\ readyToLaunch')
          => /\ pc = "rearm"
             /\ Sub32(now, coil0TriggerTime) > REARM_DELAY
             /\ releasedSince'
             /\ "rearm" \in ran']_vars
  /\ [](readyToLaunch => (~coil0Active /\ ~coil1Active))

\* the rearm step has armed the controller again after a launch
C5_Witness ==
  /\ pc = "fire0"
  /\ "rearm" \in ran
  /\ readyToLaunch
  /\ shots = 1

\* the pulse-expiry checks switch a coil off when, and only when, the pulse
\* width has passed
ExpiryAtPulseWidth ==
  /\ (pc = "expire0" /\ coil0Active)
       => (~coil0Active' <=> Sub32(now, coil0TriggerTime) > pulseWidth)
  /\ (pc = "expire0" /\ coil0Active /\ ~coil0Active') => trigger0' = 0
  /\ (pc = "expire1" /\ coil1Active)
       => (~coil1Active' <=> Sub32(now, coil1TriggerTime) > pulseWidth)
  /\ (pc = "expire1" /\ coil1Active /\ ~coil1Active') => trigger1' = 0

\* C6 as stated: an active coil becomes inactive at the first pulse-expiry
\* check that sees millis() - T > pulseWidth, and in no earlier iteration.
C6_PulseOnlyOff ==
  [][/\ ExpiryAtPulseWidth
     /\ (coil0Active /\ ~coil0Active') => pc = "expire0"
     /\ (coil1Active /\ ~coil1Active') => pc = "expire1"]_vars

\* C6 as amended: an active coil becomes inactive at the first pulse-expiry
\* check that sees millis() - T > pulseWidth; before that, only the coil1
\* firing step (coil0) or the fail-safe shutdown (either coil) switches it off.
C6_PulseAutoOff ==
  [][/\ ExpiryAtPulseWidth
     /\ (coil0Active /\ ~coil0Active')
          => pc \in {"expire0", "fire1", "failsafe"}
     /\ (coil1Active /\ ~coil1Active')
          => pc \in {"expire1", "failsafe"}]_vars

\* the expiry check has let coil0 on at exactly pulseWidth in an earlier
\* iteration and has switched it off in this one
C6_Witness ==
  /\ pc = "expire1"
  /\ "expire0" \in ran
  /\ ~coil0Active
  /\ trigger0 = 0
  /\ Sub32(now, coil0TriggerTime) = 2 * pulseWidth

\* C7: while hall1Tripped (hall2Tripped) is set, no step changes hall1TripTime
\* (hall2TripTime), whatever the sensor reads.
C7_OneShotLatch ==
  [][/\ hall1Tripped => hall1TripTime' = hall1TripTime
     /\ hall2Tripped => hall2TripTime' = hall2TripTime]_vars

\* a later iteration of the launch has passed the sensor 1 check with the
\* sensor still reading present
C7_Witness ==
  /\ pc = "hall2"
  /\ launched
  /\ hall1Tripped
  /\ hall1Line = 0
  /\ now > hall1TripTime

\* the velocity step has just run
SpeedReported == pc = "rearm" /\ "speed" \in ran

\* C8: when the velocity step runs with positive time deltas, it reports
\* 45000 div (hall1TripTime - coil0TriggerTime) and
\* 100000 div (hall2TripTime - hall1TripTime).
C8_Velocity ==
  (/\ SpeedReported
   /\ hall1TripTime > coil0TriggerTime
   /\ hall2TripTime > hall1TripTime)
    => /\ hall1SledSpeed = 45000 \div (hall1TripTime - coil0TriggerTime)
       /\ hall2SledSpeed = 100000 \div (hall2TripTime - hall1TripTime)

\* deltas of 100 ms and 200 ms have given 450 mm/s and 500 mm/s
C8_Witness ==
  /\ SpeedReported
  /\ hall1TripTime - coil0TriggerTime = 100
  /\ hall2TripTime - hall1TripTime = 200
  /\ hall1SledSpeed = 450
  /\ hall2SledSpeed = 500

\* the timing of the end-to-end scenario: sensor 1 latched 50 ms, coil1 fired
\* 60 ms and sensor 2 latched 150 ms after coil0 fired
ScenarioTimes ==
  /\ shots = 1
  /\ hall1TripTime = coil0TriggerTime + 50
  /\ coil1TriggerTime = coil0TriggerTime + 60
  /\ hall2TripTime = coil0TriggerTime + 150

\* the steps of the scenario that do not depend on the velocities
ScenarioSteps ==
  /\ (pc = "fire1" /\ "fire0" \in ran)
       => (coil0Active /\ trigger0 = 1 /\ launched /\ coil0TriggerTime = now)
  /\ (pc = "expire0" /\ "hall1" \in ran /\ "fire1" \in ran)
       => /\ coil1TriggerTime = hall1TripTime + holdOffDelay
          /\ trigger0 = 0
          /\ trigger1 = 1
  /\ (pc = "fire0" /\ "rearm" \in ran) => readyToLaunch

\* C9 as stated: in the scenario the velocities are 900 and 1111 mm/s.
C9_ScenarioAsStated ==
  /\ ScenarioSteps
  /\ (SpeedReported /\ ScenarioTimes)
       => (hall1SledSpeed = 900 /\ hall2SledSpeed = 1111 /\ ~launched)

\* C9 as amended: coil0 fires at T0; sensor 1 at T0+50 with a hold-off of 10
\* fires coil1 at T0+60; sensor 2 at T0+150 gives 900 and 1000 mm/s and clears
\* launched; the rearm step after the cool-down sets readyToLaunch.
C9_Scenario ==
  /\ ScenarioSteps
  /\ (SpeedReported /\ ScenarioTimes)
       => (hall1SledSpeed = 900 /\ hall2SledSpeed = 1000 /\ ~launched)

\* the scenario has run to its end: the controller is armed again
C9_Witness ==
  /\ ScenarioTimes
  /\ pc = "fire0"
  /\ "rearm" \in ran
  /\ readyToLaunch
  /\ ~launched
  /\ Sub32(now, coil0TriggerTime) > REARM_DELAY

\* C10: between the rearm step and the fire steps of an iteration the LED is
\* red if a coil is active, else blue if readyToLaunch is false, else green.
C10_StatusIndicator ==
  pc = "fire0" =>
    IF coil0Active \/ coil1Active
      THEN LedIs(RED)
      ELSE IF ~readyToLaunch THEN LedIs(BLUE) ELSE LedIs(GREEN)

\* the LED is green again after a launch (red) and its cool-down (blue)
C10_Witness ==
  /\ pc = "fire0"
  /\ shots = 1
  /\ readyToLaunch
  /\ LedIs(GREEN)

\* C11: checkSwitch() returns only when the latest debounceDelay polls, taken
\* 1 ms apart, all read the same level, the poll that saw the last change of
\* the pin being the first of them: counter is the number of latest polls in
\* a row that read the same level, it is set to zero by a poll that differs
\* from the read before, polling goes on exactly while it is below
\* debounceDelay, and the value returned is true for a stable HIGH and false
\* for a stable LOW.
C11_Debounce ==
  /\ pc = "cs_test" => swCounter = swRun
  /\ pc = "cs_incr" => swCounter + 1 = swRun
  /\ pc = "cs_poll" => swRun < debounceDelay
  /\ pc \in {"cs_return", "cs_done"} => swRun = debounceDelay
  /\ pc = "cs_done" => swReturn = (swLast = 1)
  /\ pc = "cs_done" => now - SetupDelay >= debounceDelay

\* the call has returned true after the pin changed level MaxBounces times,
\* the last change more than two debounce periods after the call
C11_Witness ==
  /\ pc = "cs_done"
  /\ swReturn
  /\ swChanges = MaxBounces
  /\ now - SetupDelay > 2 * debounceDelay

\* C12: for every reading 0..1023 of the potentiometer, holdOffDelay is in
\* 0..102, is 0 for the reading 0 and 102 for the reading 1023, and is not
\* below the value of the reading one smaller (so it is non-decreasing, every
\* reading being tried); the coil1 firing step blocks for
\* exactly holdOffDelay ms between switching coil0 off and driving TRIGGER1.
C12_HoldOffRange ==
  /\ [](/\ holdOffDelay \in 0..HoldOffMax
        /\ iters > 0 =>
             /\ analog = 0 => holdOffDelay = 0
             /\ analog = AnalogMax => holdOffDelay = HoldOffMax
             /\ analog > 0 =>
                  map(analog - 1, 0, AnalogMax, 0, HoldOffMax) <= holdOffDelay)
  /\ [][pc = "holdoff" =>
         /\ now' - now = holdOffDelay
         /\ pc' = "trigger1"
         /\ trigger1' = 0]_vars

\* with the reading 1023, TRIGGER1 is about to be driven 102 ms after the
\* step that fired coil0 went on to fire coil1
C12_Witness ==
  /\ pc = "trigger1"
  /\ analog = AnalogMax
  /\ holdOffDelay = HoldOffMax
  /\ "fire0" \in ran
  /\ now = coil0TriggerTime + HoldOffMax

\* C13: within one launch (from a firing of coil0 to the next), the coil1
\* firing step (lines 173-183) runs at most once, even when sensor 1 reads
\* "present" in several iterations.
C13_Coil1FiresOnce == coil1Shots <= 1

\* C14: a set trip flag belongs to the current launch: while hall1Tripped
\* (hall2Tripped) is set, hall1TripTime (hall2TripTime) is not earlier than
\* coil0TriggerTime, and both flags are clear when coil0 has just fired, also
\* in a launch that follows a fail-safe shutdown.
C14_TripFlagsCurrent ==
  /\ (pc # "fire0out" /\ hall1Tripped) => hall1TripTime >= coil0TriggerTime
  /\ (pc # "fire0out" /\ hall2Tripped) => hall2TripTime >= coil0TriggerTime
  /\ (pc = "fire1" /\ "fire0" \in ran) => (~hall1Tripped /\ ~hall2Tripped)

\* the bounds of the model leave room for n more iterations of loop() with a
\* launch in progress
IterationsLeft(n) ==
  /\ iters + n <= MaxIters
  /\ now + n * (MaxPollGap + HoldOffMax) <= MaxTime

\* C15: while loop() keeps being called and the clock keeps advancing (the
\* bounds leave room for the iterations that follow), a launch in progress
\* eventually ends, and a coil output that is high eventually goes low,
\* whatever the sensors and the switch do.
C15_LaunchEnds ==
  /\ (launched /\ IterationsLeft(2)) ~> ~launched
  /\ (trigger0 = 1 /\ IterationsLeft(1)) ~> (trigger0 = 0)
  /\ (trigger1 = 1 /\ IterationsLeft(1)) ~> (trigger1 = 0)

\* a launch in which no sensor tripped has been ended by the fail-safe
C15_Witness ==
  /\ pc = "led"
  /\ "failsafe" \in ran
  /\ ~launched
  /\ ~hall1Tripped
  /\ ~hall2Tripped
  /\ CoilsOff
  /\ shots = 1

\* C16: the fail-safe step, when it fires, clears launched, coil0Active and
\* coil1Active and drives both coil outputs low, and whether it fires or not
\* it leaves readyToLaunch, the two trip flags, the two trip times, the two
\* trigger times, the hold-off and the LED pins as they were.
C16_WatchdogFrame ==
  [][pc = "failsafe" =>
       /\ UNCHANGED <<readyToLaunch, hall1Tripped, hall2Tripped,
                      hall1TripTime, hall2TripTime, coil0TriggerTime,
                      coil1TriggerTime, holdOffDelay, ledPins>>
       /\ "failsafe" \in ran' =>
            /\ ~launched'
            /\ ~coil0Active'
            /\ ~coil1Active'
            /\ trigger0' = 0
            /\ trigger1' = 0
       /\ "failsafe" \notin ran' =>
            UNCHANGED <<launched, coil0Active, coil1Active, trigger0,
                        trigger1>>]_vars

\* the fail-safe has ended a launch in which sensor 1 had tripped and coil1
\* had fired, and has left the trip flag set
C16_Witness ==
  /\ pc = "led"
  /\ "failsafe" \in ran
  /\ hall1Tripped
  /\ ~readyToLaunch
  /\ coil1TriggerTime > coil0TriggerTime
  /\ CoilsOff

\* C17: the velocity step is not guarded against a zero divisor: it runs
\* whenever both trip flags are set, so after it the flags are never both set,
\* and when hall1TripTime = coil0TriggerTime or hall2TripTime = hall1TripTime
\* the speed it leaves is a result of a division by zero.
C17_UnguardedDivision ==
  /\ pc = "rearm" => ~(hall1Tripped /\ hall2Tripped)
  /\ (SpeedReported /\ hall1TripTime = coil0TriggerTime)
       => hall1SledSpeed \in DivByZeroResults
  /\ (SpeedReported /\ hall2TripTime = hall1TripTime)
       => hall2SledSpeed \in DivByZeroResults

\* the velocity step has run with both divisors zero: both sensors were
\* latched in one iteration at the clock value at which coil0 fired
C17_Witness ==
  /\ SpeedReported
  /\ hall1TripTime = coil0TriggerTime
  /\ hall2TripTime = hall1TripTime
  /\ shots = 1

\* C18: within an iteration of loop(), time passes only in the hold-off delay
\* of the coil1 firing step; no other step, the debounced read of the switch
\* included, lets time pass.
C18_OnlyHoldOffBlocks ==
  [][(pc # "entry" /\ now' # now) => pc = "holdoff"]_vars

\* C18 as amended: within an iteration of loop(), time passes in the hold-off
\* delay of the coil1 firing step, which blocks for holdOffDelay ms, and in
\* the two calls of checkSwitch(), each of which blocks for at least
\* debounceDelay ms: the rearm step calls it when the cool-down has passed,
\* the coil0 firing step when the launcher is ready, no coil is active and
\* both sensors are clear.  No other step lets time pass.
C18_BlockingPoints ==
  [][pc # "entry" =>
       /\ now' # now => pc \in {"holdoff", "rearm", "fire0"}
       /\ pc = "holdoff" => now' - now = holdOffDelay
       /\ pc = "rearm" =>
            IF RearmCond THEN now' - now >= debounceDelay ELSE now' = now
       /\ pc = "fire0" =>
            IF Fire0Ready THEN now' - now >= debounceDelay ELSE now' = now]_vars

\* one iteration has called checkSwitch() twice: the rearm step saw the switch
\* released and the coil0 firing step saw it pressed, at least two debounce
\* periods after the iteration began
C18_Witness ==
  /\ pc = "fire1"
  /\ "rearm" \in ran
  /\ "fire0" \in ran
  /\ shots = 2
  /\ coil0TriggerTime = now

C20_ReadyNotLaunched == ~(readyToLaunch /\ launched)

\* the rearm step has set readyToLaunch and, in the same iteration, the
\* second launch has begun: readyToLaunch is false again, launched true
C20_Witness ==
  /\ pc = "fire0out"
  /\ "rearm" \in ran
  /\ launched
  /\ ~readyToLaunch
  /\ shots = 1

====
